---- MODULE Spec2Model ----
(***************************************************************************)
(* Catalogue validator (CatalogueValidator.validate and its phases).       *)
(*                                                                         *)
(* One validate() call is modelled as a state machine: the position in     *)
(* validate (pc), the ValidationResult being filled in (result), the       *)
(* value loadCatalogueData returned (catalogueData), and the inputs of the *)
(* run: the manifest file, the assets tree and the run time.               *)
(*                                                                         *)
(* Strings built by the code are modelled as [kind, subject] records: the  *)
(* kind is the fixed text of the message, the subject the interpolated     *)
(* asset name or path (a path is a sequence of segments).  result.duration *)
(* (wall-clock time) is not modelled.                                      *)
(***************************************************************************)
EXTENDS Integers, Sequences, FiniteSets, TLC

VARIABLES
    manifestFile,   \* catalogue.json: "absent", "garbage" (not JSON), "null", "object"
    manifest,       \* the JSON value stored in catalogue.json when it is an object
    assetsTree,     \* the assets directory: [exists, files, nostat, unreadable]
    now,            \* Date.now() of the run, in ms
    pc,             \* position in validate()
    catalogueData,  \* what loadCatalogueData returned: <<>> (null) or <<data>>
    result,         \* the ValidationResult of the run
    ran,            \* history: the phases entered, in order
    visited,        \* history: asset records each per-asset loop iterated over
    caught,         \* history: the phase whose exception the catch block handled
    escaped,        \* TRUE iff an exception left validate()
    cli,            \* main(): [pc, printThrew, exitCode]
    \* download_all_categories.sh
    scriptPc,              \* position in the script
    categoryIndex,         \* i + 1: index into CATEGORIES of the current iteration
    downloaderStatus,      \* exit status of the last downloader pipeline
    categoriesDir,         \* raw/opentdb/categories: questions.json files in glob order
    completed_categories,
    failed_categories,
    total_questions,
    exitStatus,            \* exit status of the script, -1 while it runs
    iterations,            \* history: one entry per category processed
    \* Updates.tsx
    selectedFilter,        \* useState('all')
    searchQuery,           \* useState('')
    displayedUpdates,      \* useState(allUpdates.slice(0, 5)): ids of the items shown
    hasMore,               \* useState(true)
    timers,                \* pending setTimeout callbacks with the values they closed over
    queue,                 \* state updates queued since the committed render
    effectPending,         \* the committed render's useEffect has not run yet
    awaiting,              \* events handled whose complete() has not been called
    events                 \* number of user events so far

validatorVars == <<manifestFile, manifest, assetsTree, now, pc, catalogueData, result,
                   ran, visited, caught, escaped, cli>>

scriptVars == <<scriptPc, categoryIndex, downloaderStatus, categoriesDir,
                completed_categories, failed_categories, total_questions,
                exitStatus, iterations>>

pageVars == <<selectedFilter, searchQuery, displayedUpdates, hasMore, timers,
              queue, effectPending, awaiting, events>>

vars == <<validatorVars, scriptVars, pageVars>>

-----------------------------------------------------------------------------
(* Bounds and program constants *)

MaxAssets == 2

Tolerance == 2000
MsPerDay == 86400000
StaleDays == 7
maxReasonableSize == 1073741824
minReasonableSize == 1

-----------------------------------------------------------------------------
(* Values of the manifest *)

\* A field that is missing from the JSON object (undefined in JS).
UndefinedPath == <<"<undefined>">>
UndefinedExt == "<undefined>"

\* A date string: missing, not a date at all, or an ISO-8601 instant.
Iso(t) == [k |-> "iso", ms |-> t]
GarbageDate == [k |-> "garbage", ms |-> 0]
MissingDate == [k |-> "missing", ms |-> 0]

\* new Date(s): an Invalid Date (getTime() is NaN) unless s is a date string.
NewDate(s) == [nan |-> s.k # "iso", t |-> s.ms]

\* isNaN(d.getTime())
IsNaN(d) == d.nan

\* a.getTime() > b.getTime(); any comparison with NaN is false.
TimeGt(a, b) == ~a.nan /\ ~b.nan /\ a.t > b.t

\* String.prototype.toLowerCase on the extensions in use.
ToLowerCase(s) ==
    CASE s = ".PNG" -> ".png"
      [] s = ".JPG" -> ".jpg"
      [] s = ".MP3" -> ".mp3"
      [] s = "App" -> "app"
      [] OTHER -> s

\* path.extname on the file names in use.
ExtName(name) ==
    CASE name = "a.png" -> ".png"
      [] name = "b.PNG" -> ".PNG"
      [] name = "x.jpg" -> ".jpg"
      [] name = "c.txt" -> ".txt"
      [] OTHER -> ""

\* path.join(base, p) normalises p: "." and empty segments disappear.
Normalize(p) == SelectSeq(p, LAMBDA s : s # "." /\ s # "")

Msg(kind, subject) == [kind |-> kind, subject |-> subject]

Range(q) == { q[i] : i \in DOMAIN q }

-----------------------------------------------------------------------------
(* The assets tree on disk *)

\* Stats of the files the tree can hold (fs.stat: size and mtime in ms).
StatSize(f) ==
    CASE f = <<"a.png">> -> 5
      [] f = <<"d", "b.PNG">> -> 7
      [] f = <<"c.txt">> -> 3
      [] OTHER -> 4096

StatMtime(f) == 1000000

\* fs.readdir(dir, {withFileTypes: true}) lists these names, in this order,
\* when they exist.
DirListing(dir) ==
    CASE dir = <<>> -> << [name |-> "a.png", isDir |-> FALSE],
                          [name |-> "c.txt", isDir |-> FALSE],
                          [name |-> "d", isDir |-> TRUE],
                          [name |-> "x.jpg", isDir |-> FALSE] >>
      [] dir = <<"d">> -> << [name |-> "b.PNG", isDir |-> FALSE] >>
      [] OTHER -> <<>>

\* A file of the root that readdir lists after the directory d.
LateFile == <<"x.jpg">>

AllFiles == { <<"a.png">>, <<"c.txt">>, <<"d", "b.PNG">> }
AllDirs == { <<>>, <<"d">> }

\* fs.pathExists(path.join(assetsDir, p)): files and directories both exist.
PathExists(tree, p) ==
    tree.exists /\ (Normalize(p) \in tree.files \/ Normalize(p) \in AllDirs)

\* fs.stat(path.join(assetsDir, p)) rejects.
StatFails(tree, p) == Normalize(p) \in tree.nostat

\* fs.readdir(dir) rejects.
ReaddirFails(tree, dir) == dir \in tree.unreadable

\* The entries readdir returns for dir.
Readdir(tree, dir) ==
    SelectSeq(DirListing(dir),
              LAMBDA e : e.isDir \/ Append(dir, e.name) \in tree.files)

-----------------------------------------------------------------------------
(* Inputs of a run *)

RunTime == 2000000000

BaseAsset ==
    [ name |-> "n1", path |-> <<"a.png">>, type |-> "image", size |-> 5,
      created_at |-> Iso(StatMtime(<<"a.png">>)),
      modified_at |-> Iso(StatMtime(<<"a.png">>)),
      extension |-> ".png", ai_description |-> "absent",
      ai_generated_at |-> MissingDate ]

\* Records that differ in path, size and name only.
CoreAssets ==
    { [BaseAsset EXCEPT !.size = s] : s \in {5, 7} }
    \cup { [BaseAsset EXCEPT !.path = <<"d", "b.PNG">>, !.size = 7],
           [BaseAsset EXCEPT !.path = <<"x.jpg">>],
           [BaseAsset EXCEPT !.name = "n2"] }

\* Records with one unusual field; a manifest holds at most one of them.
ExoticAssets ==
    { [BaseAsset EXCEPT !.path = <<".", "a.png">>],
      [BaseAsset EXCEPT !.path = UndefinedPath, !.name = "n2"],
      [BaseAsset EXCEPT !.extension = UndefinedExt, !.name = "n2"],
      [BaseAsset EXCEPT !.size = 7,
                        !.modified_at = Iso(StatMtime(<<"a.png">>) + Tolerance + 1)],
      [BaseAsset EXCEPT !.created_at = GarbageDate],
      [BaseAsset EXCEPT !.size = 0],
      [BaseAsset EXCEPT !.modified_at = GarbageDate],
      [BaseAsset EXCEPT !.modified_at = Iso(StatMtime(<<"a.png">>) + Tolerance)],
      [BaseAsset EXCEPT !.modified_at = Iso(StatMtime(<<"a.png">>) - Tolerance - 1)],
      [BaseAsset EXCEPT !.type = "unknown"],
      [BaseAsset EXCEPT !.type = "audio"],
      [BaseAsset EXCEPT !.path = <<"d", "b.PNG">>, !.extension = ".PNG", !.size = 7],
      [BaseAsset EXCEPT !.ai_description = "text"],
      [BaseAsset EXCEPT !.ai_generated_at = Iso(StatMtime(<<"a.png">>))],
      [BaseAsset EXCEPT !.ai_description = "text",
                        !.ai_generated_at = Iso(StatMtime(<<"a.png">>))],
      [BaseAsset EXCEPT !.ai_description = "empty",
                        !.ai_generated_at = Iso(StatMtime(<<"a.png">>))] }

RECURSIVE SeqsUpTo(_, _)
SeqsUpTo(S, n) ==
    IF n = 0 THEN { <<>> }
    ELSE SeqsUpTo(S, n - 1)
         \cup { Append(q, x) : q \in { r \in SeqsUpTo(S, n - 1) : Len(r) = n - 1 },
                               x \in S }

AssetLists ==
    { q \in SeqsUpTo(CoreAssets \cup ExoticAssets, MaxAssets) :
        Cardinality({ i \in DOMAIN q : q[i] \in ExoticAssets }) <= 1 }

BaseMetadata ==
    [ present |-> TRUE, version |-> "1.0.0",
      created_at |-> Iso(StatMtime(<<"a.png">>)),
      last_updated |-> Iso(RunTime - MsPerDay), asset_count |-> <<>> ]

MetadataChoices ==
    { BaseMetadata,
      [BaseMetadata EXCEPT !.present = FALSE],
      [BaseMetadata EXCEPT !.version = "v1"],
      [BaseMetadata EXCEPT !.last_updated = GarbageDate] }
    \cup { [BaseMetadata EXCEPT !.asset_count = <<n>>] : n \in 0 .. 2 }
    \cup { [BaseMetadata EXCEPT !.last_updated = Iso(RunTime - d)] :
             d \in { StaleDays * MsPerDay, StaleDays * MsPerDay + 1, 10 * MsPerDay } }

BaseTree ==
    [ exists |-> TRUE, files |-> AllFiles, nostat |-> {}, unreadable |-> {} ]

TreeChoices ==
    { [BaseTree EXCEPT !.exists = FALSE, !.files = {}] }
    \cup { [BaseTree EXCEPT !.files = fs] : fs \in SUBSET AllFiles }
    \cup { [BaseTree EXCEPT !.unreadable = { <<"d">> }],
           [BaseTree EXCEPT !.unreadable = { <<"d">> }, !.files = { <<"a.png">> }],
           [BaseTree EXCEPT !.unreadable = { <<"d">> }, !.files = AllFiles \cup { LateFile }],
           [BaseTree EXCEPT !.unreadable = { <<>> }],
           [BaseTree EXCEPT !.nostat = { <<"a.png">> }] }

\* (metadata, assets, tree) triples: every metadata with the base tree, every
\* tree with the base metadata, and all of both for an empty assets list.
Inputs ==
    { <<m, a, BaseTree>> : m \in MetadataChoices, a \in AssetLists }
    \cup { <<BaseMetadata, a, t>> : a \in AssetLists, t \in TreeChoices }
    \cup { <<m, <<>>, t>> : m \in MetadataChoices, t \in TreeChoices }

-----------------------------------------------------------------------------
(* Schema validation (Joi, abortEarly: false) *)

\* Joi.string().isoDate()
IsoDateOK(s) == s.k = "iso"

\* Joi.string().pattern(/^\.[a-zA-Z0-9]+$/)
ExtensionPatternOK(e) == e \in { ".png", ".PNG", ".jpg", ".JPG", ".mp3", ".MP3", ".mp4" }

\* Joi.string().pattern(/^\d+\.\d+\.\d+$/)
VersionPatternOK(v) == v \in { "1.0.0" }

TypeOK(t) == t \in { "image", "audio", "video", "unknown" }

\* The details Joi reports for the metadata object, in schema order.
metadataDetails(m) ==
    IF ~m.present THEN << Msg("SchemaDetail", <<"metadata">>) >>
    ELSE (IF VersionPatternOK(m.version) THEN <<>>
          ELSE << Msg("SchemaDetail", <<"metadata", "version">>) >>)
         \o (IF IsoDateOK(m.created_at) THEN <<>>
             ELSE << Msg("SchemaDetail", <<"metadata", "created_at">>) >>)
         \o (IF IsoDateOK(m.last_updated) THEN <<>>
             ELSE << Msg("SchemaDetail", <<"metadata", "last_updated">>) >>)

\* The details Joi reports for one asset record, in schema order.
assetDetails(a, at) ==
    (IF a.path # UndefinedPath THEN <<>>
     ELSE << Msg("SchemaDetail", <<"assets", at, "path">>) >>)
    \o (IF TypeOK(a.type) THEN <<>>
        ELSE << Msg("SchemaDetail", <<"assets", at, "type">>) >>)
    \o (IF a.size >= 0 THEN <<>>
        ELSE << Msg("SchemaDetail", <<"assets", at, "size">>) >>)
    \o (IF IsoDateOK(a.created_at) THEN <<>>
        ELSE << Msg("SchemaDetail", <<"assets", at, "created_at">>) >>)
    \o (IF IsoDateOK(a.modified_at) THEN <<>>
        ELSE << Msg("SchemaDetail", <<"assets", at, "modified_at">>) >>)
    \o (IF ExtensionPatternOK(a.extension) THEN <<>>
        ELSE << Msg("SchemaDetail", <<"assets", at, "extension">>) >>)
    \o (IF a.ai_description # "empty" THEN <<>>
        ELSE << Msg("SchemaDetail", <<"assets", at, "ai_description">>) >>)
    \o (IF a.ai_generated_at.k \in { "iso", "missing" } THEN <<>>
        ELSE << Msg("SchemaDetail", <<"assets", at, "ai_generated_at">>) >>)

Index(i) == CASE i = 1 -> "0" [] i = 2 -> "1" [] i = 3 -> "2" [] OTHER -> "3"

RECURSIVE assetsDetails(_, _)
assetsDetails(assets, i) ==
    IF i > Len(assets) THEN <<>>
    ELSE assetDetails(assets[i], Index(i)) \o assetsDetails(assets, i + 1)

schemaDetails(data) == metadataDetails(data.metadata) \o assetsDetails(data.assets, 1)

SchemaValid(data) == schemaDetails(data) = <<>>

\* validateSchema: the summary error, then one error per detail.
validateSchema(data, res) ==
    IF SchemaValid(data) THEN res
    ELSE [res EXCEPT !.errors = @ \o << Msg("Schema validation failed", <<>>) >>
                                  \o schemaDetails(data)]

-----------------------------------------------------------------------------
(* Data integrity validation *)

getExpectedExtensions(type) ==
    CASE type = "image" -> { ".jpg", ".jpeg", ".png", ".gif", ".bmp", ".webp" }
      [] type = "audio" -> { ".mp3", ".wav", ".flac", ".aac", ".ogg" }
      [] type = "video" -> { ".mp4", ".mov", ".avi", ".mkv", ".webm" }
      [] OTHER -> {}

\* One iteration of the loop over data.assets.  st carries the result, the
\* two Sets and whether a TypeError was thrown (asset.extension undefined).
duplicatePathStep(asset, st) ==
    IF asset.path \in st.paths
    THEN [st EXCEPT !.res.errors = Append(@, Msg("Duplicate asset path found", asset.path)),
                    !.res.stats.invalidAssets = @ + 1]
    ELSE [st EXCEPT !.paths = @ \cup { asset.path }]

duplicateNameStep(asset, st) ==
    IF asset.name \in st.names
    THEN [st EXCEPT !.res.warnings = Append(@, Msg("Duplicate asset name found", <<asset.name>>))]
    ELSE [st EXCEPT !.names = @ \cup { asset.name }]

datesStep(asset, st) ==
    LET createdAt == NewDate(asset.created_at)
        modifiedAt == NewDate(asset.modified_at)
        s1 == IF IsNaN(createdAt)
              THEN [st EXCEPT !.res.errors = Append(@, Msg("Invalid created_at date for asset", <<asset.name>>)),
                              !.res.stats.invalidAssets = @ + 1]
              ELSE st
        s2 == IF IsNaN(modifiedAt)
              THEN [s1 EXCEPT !.res.errors = Append(@, Msg("Invalid modified_at date for asset", <<asset.name>>)),
                              !.res.stats.invalidAssets = @ + 1]
              ELSE s1
    IN  IF TimeGt(createdAt, modifiedAt)
        THEN [s2 EXCEPT !.res.warnings = Append(@, Msg("created_at is after modified_at", <<asset.name>>))]
        ELSE s2

extensionStep(asset, st) ==
    IF asset.extension = UndefinedExt
    THEN [st EXCEPT !.thrown = TRUE]
    ELSE IF ToLowerCase(asset.extension) \notin getExpectedExtensions(asset.type)
         THEN [st EXCEPT !.res.warnings = Append(@, Msg("extension doesn't match type", <<asset.name>>))]
         ELSE st

integrityStep(asset, st) ==
    extensionStep(asset,
        datesStep(asset,
            duplicateNameStep(asset,
                duplicatePathStep(asset, [st EXCEPT !.visited = @ + 1]))))

RECURSIVE integrityLoop(_, _, _)
integrityLoop(assets, i, st) ==
    IF i > Len(assets) \/ st.thrown THEN st
    ELSE integrityLoop(assets, i + 1, integrityStep(assets[i], st))

assetCountCheck(data, res) ==
    IF data.metadata.asset_count # <<>> /\ data.metadata.asset_count[1] # Len(data.assets)
    THEN [res EXCEPT !.warnings = Append(@, Msg("Asset count mismatch", <<>>))]
    ELSE res

\* validateDataIntegrity: [res, thrown, visited].  data.metadata undefined
\* makes the first statement throw a TypeError.
validateDataIntegrity(data, res) ==
    IF ~data.metadata.present
    THEN [res |-> res, paths |-> {}, names |-> {}, thrown |-> TRUE, visited |-> 0]
    ELSE integrityLoop(data.assets, 1,
            [res |-> assetCountCheck(data, res), paths |-> {}, names |-> {},
             thrown |-> FALSE, visited |-> 0])

-----------------------------------------------------------------------------
(* File-system validation and the orphan scan *)

supportedExtensions ==
    { ".jpg", ".jpeg", ".png", ".gif", ".bmp", ".webp", ".mp3", ".wav", ".flac",
      ".aac", ".ogg", ".mp4", ".mov", ".avi", ".mkv", ".webm" }

\* The body of the try block: fs.stat, then the size and mtime comparisons.
fileStatsStep(tree, asset, st) ==
    IF StatFails(tree, asset.path)
    THEN [st EXCEPT !.res.errors = Append(@, Msg("Failed to check file stats for", asset.path)),
                    !.res.stats.invalidAssets = @ + 1]
    ELSE LET f == Normalize(asset.path)
             catalogueMtime == NewDate(asset.modified_at)
             timeDiff == IF StatMtime(f) >= catalogueMtime.t
                         THEN StatMtime(f) - catalogueMtime.t
                         ELSE catalogueMtime.t - StatMtime(f)
             s1 == IF StatSize(f) # asset.size
                   THEN [st EXCEPT !.res.warnings = Append(@, Msg("File size mismatch for", asset.path))]
                   ELSE st
         IN  IF ~IsNaN(catalogueMtime) /\ timeDiff > Tolerance
             THEN [s1 EXCEPT !.res.warnings = Append(@, Msg("File modification time mismatch for", asset.path))]
             ELSE s1

\* One iteration of the loop over data.assets.  path.join throws a
\* TypeError when asset.path is undefined.
fileSystemStep(tree, asset, st) ==
    IF asset.path = UndefinedPath
    THEN [st EXCEPT !.thrown = TRUE, !.visited = @ + 1]
    ELSE IF ~PathExists(tree, asset.path)
         THEN [st EXCEPT !.res.errors = Append(@, Msg("Missing file", asset.path)),
                         !.res.stats.missingFiles = @ + 1,
                         !.res.stats.invalidAssets = @ + 1,
                         !.visited = @ + 1]
         ELSE fileStatsStep(tree, asset, [st EXCEPT !.visited = @ + 1])

RECURSIVE fileSystemLoop(_, _, _, _)
fileSystemLoop(tree, assets, i, st) ==
    IF i > Len(assets) \/ st.thrown THEN st
    ELSE fileSystemLoop(tree, assets, i + 1, fileSystemStep(tree, assets[i], st))

\* The else-if branch of findFiles for a regular file.
orphanStep(cataloguePaths, relPath, name, res) ==
    IF ToLowerCase(ExtName(name)) \in supportedExtensions /\ relPath \notin cataloguePaths
    THEN [res EXCEPT !.warnings = Append(@, Msg("Orphaned file found", relPath)),
                     !.stats.orphanedFiles = @ + 1]
    ELSE res

RECURSIVE findFiles(_, _, _, _)
RECURSIVE findItems(_, _, _, _, _, _)
\* Mutant: a directory that cannot be read ends the scan of its parent.
RECURSIVE findItems_stopOnFailure(_, _, _, _, _, _)
findItems_stopOnFailure(tree, cataloguePaths, dir, items, i, res) ==
    IF i > Len(items) THEN res
    ELSE LET relPath == Append(dir, items[i].name)
             r1 == IF items[i].isDir
                   THEN findFiles(tree, cataloguePaths, relPath, res)
                   ELSE orphanStep(cataloguePaths, relPath, items[i].name, res)
         IN  IF items[i].isDir /\ ReaddirFails(tree, relPath)
             THEN r1
             ELSE findItems_stopOnFailure(tree, cataloguePaths, dir, items, i + 1, r1)

findItems(tree, cataloguePaths, dir, items, i, res) ==
    IF i > Len(items) THEN res
    ELSE LET relPath == Append(dir, items[i].name)
             r1 == IF items[i].isDir
                   THEN findFiles(tree, cataloguePaths, relPath, res)
                   ELSE orphanStep(cataloguePaths, relPath, items[i].name, res)
         IN  findItems(tree, cataloguePaths, dir, items, i + 1, r1)

findFiles(tree, cataloguePaths, dir, res) ==
    IF ReaddirFails(tree, dir)
    THEN [res EXCEPT !.warnings = Append(@, Msg("Failed to scan directory", dir))]
    ELSE findItems(tree, cataloguePaths, dir, Readdir(tree, dir), 1, res)

checkOrphanedFiles(tree, data, res) ==
    findFiles(tree, { data.assets[i].path : i \in DOMAIN data.assets }, <<>>, res)

\* Mutant: the orphan scan runs before the loop over the asset records.
validateFileSystem_scanFirst(tree, data, res) ==
    IF ~tree.exists
    THEN [res |-> [res EXCEPT !.warnings = Append(@, Msg("Assets directory does not exist", <<>>))],
          thrown |-> FALSE, visited |-> 0, scanned |-> FALSE]
    ELSE LET st == fileSystemLoop(tree, data.assets, 1,
                       [res |-> checkOrphanedFiles(tree, data, res),
                        thrown |-> FALSE, visited |-> 0, scanned |-> FALSE])
         IN  IF st.thrown THEN st ELSE [st EXCEPT !.scanned = TRUE]

\* Mutant: a missing assets directory is warned about but not returned on.
validateFileSystem_noReturn(tree, data, res) ==
    LET st == fileSystemLoop(tree, data.assets, 1,
                  [res |-> IF tree.exists THEN res
                           ELSE [res EXCEPT !.warnings = Append(@, Msg("Assets directory does not exist", <<>>))],
                   thrown |-> FALSE, visited |-> 0, scanned |-> FALSE])
    IN  IF st.thrown THEN st
        ELSE [st EXCEPT !.res = checkOrphanedFiles(tree, data, st.res),
                        !.scanned = TRUE]

\* Mutant: a missing assets directory is recorded as an error.
validateFileSystem_dirError(tree, data, res) ==
    IF ~tree.exists
    THEN [res |-> [res EXCEPT !.errors = Append(@, Msg("Assets directory does not exist", <<>>))],
          thrown |-> FALSE, visited |-> 0, scanned |-> FALSE]
    ELSE LET st == fileSystemLoop(tree, data.assets, 1,
                       [res |-> res, thrown |-> FALSE, visited |-> 0, scanned |-> FALSE])
         IN  IF st.thrown THEN st
             ELSE [st EXCEPT !.res = checkOrphanedFiles(tree, data, st.res),
                             !.scanned = TRUE]

\* validateFileSystem: [res, thrown, visited, scanned].
validateFileSystem(tree, data, res) ==
    IF ~tree.exists
    THEN [res |-> [res EXCEPT !.warnings = Append(@, Msg("Assets directory does not exist", <<>>))],
          thrown |-> FALSE, visited |-> 0, scanned |-> FALSE]
    ELSE LET st == fileSystemLoop(tree, data.assets, 1,
                       [res |-> res, thrown |-> FALSE, visited |-> 0, scanned |-> FALSE])
         IN  IF st.thrown THEN st
             ELSE [st EXCEPT !.res = checkOrphanedFiles(tree, data, st.res),
                             !.scanned = TRUE]

-----------------------------------------------------------------------------
(* Business rules *)

\* JS truthiness of the optional fields.
HasDescription(asset) == asset.ai_description = "text"
HasGeneratedAt(asset) == asset.ai_generated_at.k # "missing"

businessStep(asset, res) ==
    LET r1 == IF asset.size > maxReasonableSize
              THEN [res EXCEPT !.warnings = Append(@, Msg("unusually large size", <<asset.name>>))]
              ELSE res
        r2 == IF asset.size < minReasonableSize
              THEN [r1 EXCEPT !.warnings = Append(@, Msg("unusually small size", <<asset.name>>))]
              ELSE r1
        r3 == IF HasDescription(asset) /\ ~HasGeneratedAt(asset)
              THEN [r2 EXCEPT !.warnings = Append(@, Msg("AI description but no generation timestamp", <<asset.name>>))]
              ELSE r2
    IN  IF ~HasDescription(asset) /\ HasGeneratedAt(asset)
        THEN [r3 EXCEPT !.warnings = Append(@, Msg("AI generation timestamp but no description", <<asset.name>>))]
        ELSE r3

RECURSIVE businessLoop(_, _, _)
businessLoop(assets, i, res) ==
    IF i > Len(assets) THEN res
    ELSE businessLoop(assets, i + 1, businessStep(assets[i], res))

\* daysSinceUpdate > 7, with daysSinceUpdate = (now - lastUpdated) / MsPerDay.
Stale(t, lastUpdated) ==
    ~IsNaN(lastUpdated) /\ t - lastUpdated.t > StaleDays * MsPerDay

freshnessCheck(t, data, res) ==
    IF Stale(t, NewDate(data.metadata.last_updated))
    THEN [res EXCEPT !.warnings = Append(@, Msg("Catalogue hasn't been updated in days", <<>>))]
    ELSE res

validateBusinessRules(t, data, res) ==
    freshnessCheck(t, data, businessLoop(data.assets, 1, res))

-----------------------------------------------------------------------------
(* validate() *)

NewResult ==
    [ success |-> TRUE, errors |-> <<>>, warnings |-> <<>>,
      stats |-> [ totalAssets |-> 0, validAssets |-> 0, invalidAssets |-> 0,
                  missingFiles |-> 0, orphanedFiles |-> 0 ] ]

NoVisits == [ integrity |-> 0, filesystem |-> 0, business |-> 0 ]

\* Mutant: the rejection of fs.readJson is not turned into null.
loadCatalogueData_noCatch(file, content) == << content >>

\* fs.readJson resolves to the parsed value, or rejects; loadCatalogueData
\* turns a rejection into null.
loadCatalogueData(file, content) ==
    IF file = "object" THEN << content >> ELSE <<>>

\* Mutant: the catch block rethrows instead of recording the error.
catchBlock_rethrow(res) == [ res |-> res, escaped |-> TRUE ]

\* The catch block of validate: [res, escaped].
catchBlock(res) ==
    [ res |-> [res EXCEPT !.success = FALSE,
                          !.errors = Append(@, Msg("Validation failed", <<>>))],
      escaped |-> FALSE ]

\* Mutant: validAssets adds the invalid records instead of subtracting them.
finalStats_plus(data, res) ==
    LET r1 == [res EXCEPT !.stats.totalAssets = Len(data.assets)]
        r2 == [r1 EXCEPT !.stats.validAssets = r1.stats.totalAssets + r1.stats.invalidAssets]
    IN  IF Len(r2.errors) > 0 THEN [r2 EXCEPT !.success = FALSE] ELSE r2

\* Mutant: validAssets is clamped at 0.
finalStats_clamped(data, res) ==
    LET r1 == [res EXCEPT !.stats.totalAssets = Len(data.assets)]
        r2 == [r1 EXCEPT !.stats.validAssets =
                  IF r1.stats.totalAssets >= r1.stats.invalidAssets
                  THEN r1.stats.totalAssets - r1.stats.invalidAssets ELSE 0]
    IN  IF Len(r2.errors) > 0 THEN [r2 EXCEPT !.success = FALSE] ELSE r2

\* Mutant: success is not cleared when errors were collected.
finalStats_keepSuccess(data, res) ==
    LET r1 == [res EXCEPT !.stats.totalAssets = Len(data.assets)]
    IN  [r1 EXCEPT !.stats.validAssets = r1.stats.totalAssets - r1.stats.invalidAssets]

\* The final statements of the try block.
finalStats(data, res) ==
    LET r1 == [res EXCEPT !.stats.totalAssets = Len(data.assets)]
        r2 == [r1 EXCEPT !.stats.validAssets = r1.stats.totalAssets - r1.stats.invalidAssets]
    IN  IF Len(r2.errors) > 0 THEN [r2 EXCEPT !.success = FALSE] ELSE r2

\* main() before validate() has resolved.
MainStart == [ pc |-> "validate", printThrew |-> FALSE, exitCode |-> -1 ]

\* The Updates page is not mounted.
PageNotMounted ==
    /\ selectedFilter = "all"
    /\ searchQuery = ""
    /\ displayedUpdates = <<>>
    /\ hasMore = FALSE
    /\ timers = <<>>
    /\ queue = <<>>
    /\ effectPending = FALSE
    /\ awaiting = {}
    /\ events = 0

\* The download script is not part of a validator run.
ScriptNotStarted ==
    /\ scriptPc = "idle"
    /\ categoryIndex = 1
    /\ downloaderStatus = 0
    /\ categoriesDir = <<>>
    /\ completed_categories = 0
    /\ failed_categories = 0
    /\ total_questions = 0
    /\ exitStatus = -1
    /\ iterations = <<>>

Init ==
    /\ \E file \in { "absent", "garbage", "null", "object" } :
       \E inp \in Inputs :
          /\ file # "object" => inp[1] = BaseMetadata /\ inp[2] = <<>>
          /\ manifestFile = file
          /\ manifest = [ metadata |-> inp[1], assets |-> inp[2] ]
          /\ assetsTree = inp[3]
    /\ now = RunTime
    /\ pc = "exists"
    /\ catalogueData = <<>>
    /\ result = NewResult
    /\ ran = <<>>
    /\ visited = NoVisits
    /\ caught = "none"
    /\ escaped = FALSE
    /\ cli = MainStart
    /\ ScriptNotStarted
    /\ PageNotMounted

\* Mutant: a step drops the asset records it has processed from the manifest.
Inputs_rewritten ==
    /\ UNCHANGED <<manifestFile, assetsTree, now>>
    /\ manifest' = [manifest EXCEPT !.assets = <<>>]

Inputs_unchanged == UNCHANGED <<manifestFile, manifest, assetsTree, now>>

\* A step of validate() leaves main() waiting and the script alone.
Main_unchanged == UNCHANGED <<cli, scriptVars, pageVars>>

\* Mutant: the early return after the existence check is missing.
CheckExists_noReturn ==
    /\ pc = "exists"
    /\ result' = IF manifestFile = "absent"
                 THEN [result EXCEPT !.success = FALSE,
                                     !.errors = Append(@, Msg("Catalogue file does not exist", <<>>))]
                 ELSE result
    /\ pc' = "load"
    /\ UNCHANGED <<catalogueData, ran, visited, caught, escaped>>
    /\ Inputs_unchanged
    /\ Main_unchanged

\* if (!(await fs.pathExists(this.catalogueFile))) { ...; return result; }
CheckExists ==
    /\ pc = "exists"
    /\ IF manifestFile = "absent"
       THEN /\ result' = [result EXCEPT !.success = FALSE,
                                        !.errors = Append(@, Msg("Catalogue file does not exist", <<>>))]
            /\ pc' = "done"
       ELSE /\ result' = result
            /\ pc' = "load"
    /\ UNCHANGED <<catalogueData, ran, visited, caught, escaped>>
    /\ Inputs_unchanged
    /\ Main_unchanged

\* const catalogueData = await this.loadCatalogueData(); if (!catalogueData) ...
Load ==
    /\ pc = "load"
    /\ catalogueData' = loadCatalogueData(manifestFile, manifest)
    /\ IF catalogueData' = <<>>
       THEN /\ result' = [result EXCEPT !.success = FALSE,
                                        !.errors = Append(@, Msg("Failed to load catalogue data", <<>>))]
            /\ pc' = "done"
       ELSE /\ result' = result
            /\ pc' = "schema"
    /\ UNCHANGED <<ran, visited, caught, escaped>>
    /\ Inputs_unchanged
    /\ Main_unchanged

Schema ==
    /\ pc = "schema"
    /\ result' = validateSchema(catalogueData[1], result)
    /\ ran' = Append(ran, "schema")
    /\ pc' = "integrity"
    /\ UNCHANGED <<catalogueData, visited, caught, escaped>>
    /\ Inputs_unchanged
    /\ Main_unchanged

Integrity ==
    /\ pc = "integrity"
    /\ LET st == validateDataIntegrity(catalogueData[1], result)
           c == catchBlock(st.res)
       IN  /\ result' = IF st.thrown THEN c.res ELSE st.res
           /\ escaped' = IF st.thrown THEN c.escaped ELSE escaped
           /\ caught' = IF st.thrown THEN "integrity" ELSE caught
           /\ pc' = IF st.thrown THEN "done" ELSE "filesystem"
           /\ visited' = [visited EXCEPT !.integrity = st.visited]
    /\ ran' = Append(ran, "integrity")
    /\ UNCHANGED <<catalogueData>>
    /\ Inputs_unchanged
    /\ Main_unchanged

FileSystem ==
    /\ pc = "filesystem"
    /\ LET st == validateFileSystem(assetsTree, catalogueData[1], result)
           c == catchBlock(st.res)
       IN  /\ result' = IF st.thrown THEN c.res ELSE st.res
           /\ escaped' = IF st.thrown THEN c.escaped ELSE escaped
           /\ caught' = IF st.thrown THEN "filesystem" ELSE caught
           /\ pc' = IF st.thrown THEN "done" ELSE "business"
           /\ visited' = [visited EXCEPT !.filesystem = st.visited]
           /\ ran' = IF st.scanned THEN ran \o << "filesystem", "orphans" >>
                                   ELSE Append(ran, "filesystem")
    /\ UNCHANGED <<catalogueData>>
    /\ Inputs_unchanged
    /\ Main_unchanged

BusinessRules ==
    /\ pc = "business"
    /\ result' = validateBusinessRules(now, catalogueData[1], result)
    /\ visited' = [visited EXCEPT !.business = Len(catalogueData[1].assets)]
    /\ ran' = Append(ran, "business")
    /\ pc' = "tally"
    /\ UNCHANGED <<catalogueData, caught, escaped>>
    /\ Inputs_unchanged
    /\ Main_unchanged

Tally ==
    /\ pc = "tally"
    /\ result' = finalStats(catalogueData[1], result)
    /\ pc' = "done"
    /\ UNCHANGED <<catalogueData, ran, visited, caught, escaped>>
    /\ Inputs_unchanged
    /\ Main_unchanged

-----------------------------------------------------------------------------
(* main(): the CLI around validate() *)

Validate_unchanged ==
    UNCHANGED <<manifestFile, manifest, assetsTree, now, pc, catalogueData, result,
                ran, visited, caught, escaped, scriptVars, pageVars>>

\* Mutant: the exit code is the number of errors.
exitCodeOf_errorCount(res) == Len(res.errors)

\* process.exit(result.success ? 0 : 1)
exitCodeOf(res) == IF res.success THEN 0 ELSE 1

\* const result = await validator.validate(): resolves with the result, or
\* rejects when an exception left validate().
AwaitValidate ==
    /\ pc = "done"
    /\ cli.pc = "validate"
    /\ cli' = [cli EXCEPT !.pc = IF escaped THEN "rejected" ELSE "print"]
    /\ Validate_unchanged

\* validator.printResults(result): console.log may throw (stdout closed).
PrintResults ==
    /\ cli.pc = "print"
    /\ \E threw \in BOOLEAN :
          cli' = [cli EXCEPT !.pc = IF threw THEN "rejected" ELSE "exit",
                             !.printThrew = threw]
    /\ Validate_unchanged

\* process.exit(result.success ? 0 : 1)
Exit ==
    /\ cli.pc = "exit"
    /\ cli' = [cli EXCEPT !.pc = "exited", !.exitCode = exitCodeOf(result)]
    /\ Validate_unchanged

\* main().catch(error => { ...; process.exit(1); })
CatchExit ==
    /\ cli.pc = "rejected"
    /\ cli' = [cli EXCEPT !.pc = "exited", !.exitCode = 1]
    /\ Validate_unchanged

Next ==
    \/ CheckExists
    \/ Load
    \/ Schema
    \/ Integrity
    \/ FileSystem
    \/ BusinessRules
    \/ Tally
    \/ AwaitValidate
    \/ PrintResults
    \/ Exit
    \/ CatchExit

Spec == Init /\ [][Next]_vars

\* validate() has returned its ValidationResult.
Returned == pc = "done" /\ ~escaped

-----------------------------------------------------------------------------
(* download_all_categories.sh *)

NumCategories == 3

AllCategories ==
    << 9, 10, 11, 12, 13, 14, 15, 16, 17, 18, 19, 20,
       21, 22, 23, 24, 25, 26, 27, 28, 29, 30, 31, 32 >>

\* The last NumCategories entries of the CATEGORIES array.
CATEGORIES ==
    SubSeq(AllCategories, Len(AllCategories) - NumCategories + 1, Len(AllCategories))

\* A categories/<slug>/ directory without a questions.json.
NoFile == [ present |-> FALSE, category_id |-> 0, total_questions |-> 0 ]

\* A questions.json; an unreadable statistics block reads as 0 questions.
QuestionsFile(id, n) == [ present |-> TRUE, category_id |-> id, total_questions |-> n ]

QuestionCounts == { 0, 2, 3 }

\* The directories of raw/opentdb/categories in glob order: a directory left
\* by an earlier layout, which sorts first, then one directory per category.
SlotOf(index) == index + 1

InitialDirs ==
    { [ i \in 1 .. Len(CATEGORIES) + 1 |-> IF i = 1 THEN legacy ELSE NoFile ] :
        legacy \in { NoFile } \cup { QuestionsFile(id, n) : id \in Range(CATEGORIES), n \in { 0, 2 } } }

\* downloader.py --category id: it may write the category's questions.json,
\* with any number of questions, and exits 0 or 1.
downloaderWrites(dir, index, id) ==
    { dir } \cup { [dir EXCEPT ![SlotOf(index)] = QuestionsFile(id, n)] : n \in QuestionCounts }

\* The loop over "$category_dir"/*/questions.json: the first file whose
\* category_id is the category's, and its total_questions.
RECURSIVE findQuestions(_, _, _)
findQuestions(dir, category_id, i) ==
    IF i > Len(dir) THEN [ found |-> FALSE, count |-> 0 ]
    ELSE IF dir[i].present /\ dir[i].category_id = category_id
         THEN [ found |-> TRUE, count |-> dir[i].total_questions ]
         ELSE findQuestions(dir, category_id, i + 1)

\* Mutant: a data file with 0 questions counts as downloaded.
reconcile_zeroCompleted(status, dir, category_id) ==
    IF status = 0
    THEN LET f == findQuestions(dir, category_id, 1)
         IN  IF f.found
             THEN [ verdict |-> "completed", count |-> f.count ]
             ELSE [ verdict |-> "no data file", count |-> 0 ]
    ELSE [ verdict |-> "failed", count |-> 0 ]

\* The branches of the if over the downloader pipeline.
reconcile(status, dir, category_id) ==
    IF status = 0
    THEN LET f == findQuestions(dir, category_id, 1)
         IN  IF f.found
             THEN IF f.count > 0
                  THEN [ verdict |-> "completed", count |-> f.count ]
                  ELSE [ verdict |-> "0 questions", count |-> f.count ]
             ELSE [ verdict |-> "no data file", count |-> 0 ]
    ELSE [ verdict |-> "failed", count |-> 0 ]

\* validate() and main() are not part of a run of the script.
ValidatorNotStarted ==
    /\ manifestFile = "absent"
    /\ manifest = [ metadata |-> BaseMetadata, assets |-> <<>> ]
    /\ assetsTree = BaseTree
    /\ now = RunTime
    /\ pc = "idle"
    /\ catalogueData = <<>>
    /\ result = NewResult
    /\ ran = <<>>
    /\ visited = NoVisits
    /\ caught = "none"
    /\ escaped = FALSE
    /\ cli = [MainStart EXCEPT !.pc = "idle"]

InitDownload ==
    /\ ValidatorNotStarted
    /\ PageNotMounted
    /\ scriptPc = "download"
    /\ categoryIndex = 1
    /\ downloaderStatus = 0
    /\ categoriesDir \in InitialDirs
    /\ completed_categories = 0
    /\ failed_categories = 0
    /\ total_questions = 0
    /\ exitStatus = -1
    /\ iterations = <<>>

\* python3 downloader.py --category "$category_id" --reset-tokens 2>&1 | tee -a "$LOG_FILE"
Download ==
    /\ scriptPc = "download"
    /\ \E status \in { 0, 1 } :
       \E dir \in downloaderWrites(categoriesDir, categoryIndex, CATEGORIES[categoryIndex]) :
          /\ downloaderStatus' = status
          /\ categoriesDir' = dir
    /\ scriptPc' = "reconcile"
    /\ UNCHANGED <<validatorVars, pageVars, categoryIndex, completed_categories, failed_categories,
                   total_questions, exitStatus, iterations>>

\* Mutant: a failing downloader pipeline ends the script, as under set -e
\* outside an if.
Reconcile_errexit ==
    /\ scriptPc = "reconcile"
    /\ LET id == CATEGORIES[categoryIndex]
           r  == reconcile(downloaderStatus, categoriesDir, id)
       IN  /\ completed_categories' = completed_categories + (IF r.verdict = "completed" THEN 1 ELSE 0)
           /\ failed_categories' = failed_categories + (IF r.verdict = "completed" THEN 0 ELSE 1)
           /\ total_questions' = total_questions + (IF r.verdict = "completed" THEN r.count ELSE 0)
           /\ iterations' = Append(iterations,
                  [ category_id |-> id, status |-> downloaderStatus, dir |-> categoriesDir,
                    verdict |-> r.verdict, count |-> r.count ])
    /\ scriptPc' = IF downloaderStatus = 0 THEN "delay" ELSE "exited"
    /\ exitStatus' = IF downloaderStatus = 0 THEN exitStatus ELSE downloaderStatus
    /\ UNCHANGED <<validatorVars, pageVars, categoryIndex, downloaderStatus, categoriesDir>>

\* The body of the if: the category is counted as completed or as failed.
Reconcile ==
    /\ scriptPc = "reconcile"
    /\ LET id == CATEGORIES[categoryIndex]
           r  == reconcile(downloaderStatus, categoriesDir, id)
       IN  /\ completed_categories' = completed_categories + (IF r.verdict = "completed" THEN 1 ELSE 0)
           /\ failed_categories' = failed_categories + (IF r.verdict = "completed" THEN 0 ELSE 1)
           /\ total_questions' = total_questions + (IF r.verdict = "completed" THEN r.count ELSE 0)
           /\ iterations' = Append(iterations,
                  [ category_id |-> id, status |-> downloaderStatus, dir |-> categoriesDir,
                    verdict |-> r.verdict, count |-> r.count ])
    /\ scriptPc' = "delay"
    /\ UNCHANGED <<validatorVars, pageVars, categoryIndex, downloaderStatus, categoriesDir, exitStatus>>

\* The progress line and the delay between categories; the loop moves on.
Delay ==
    /\ scriptPc = "delay"
    /\ categoryIndex' = categoryIndex + 1
    /\ scriptPc' = IF categoryIndex = Len(CATEGORIES) THEN "summary" ELSE "download"
    /\ UNCHANGED <<validatorVars, pageVars, downloaderStatus, categoriesDir, completed_categories,
                   failed_categories, total_questions, exitStatus, iterations>>

\* Mutant: the script exits 1 only when no category completed.
FinalStatus_noneCompleted ==
    /\ scriptPc = "summary"
    /\ exitStatus' = IF completed_categories = 0 THEN 1 ELSE 0
    /\ scriptPc' = "exited"
    /\ UNCHANGED <<validatorVars, pageVars, categoryIndex, downloaderStatus, categoriesDir,
                   completed_categories, failed_categories, total_questions, iterations>>

\* The summary and the final status.
FinalStatus ==
    /\ scriptPc = "summary"
    /\ exitStatus' = IF failed_categories > 0 THEN 1 ELSE 0
    /\ scriptPc' = "exited"
    /\ UNCHANGED <<validatorVars, pageVars, categoryIndex, downloaderStatus, categoriesDir,
                   completed_categories, failed_categories, total_questions, iterations>>

NextDownload ==
    \/ Download
    \/ Reconcile
    \/ Delay
    \/ FinalStatus

SpecDownload == InitDownload /\ [][NextDownload]_vars

-----------------------------------------------------------------------------
(* Updates.tsx: the Updates page *)

MaxEvents == 4

PageSize == 5
LoadMoreCount == 3
RefreshDelay == 1000
LoadMoreDelay == 500

\* allUpdates, by id, and the type of each item.
allUpdates == << 1, 2, 3, 4, 5, 6, 7, 8 >>

UpdateType(id) ==
    CASE id \in { 1, 5, 8 } -> "feature"
      [] id \in { 2, 6 } -> "improvement"
      [] id \in { 3, 7 } -> "bugfix"
      [] OTHER -> "announcement"

Filters == { "all", "feature", "improvement", "bugfix", "announcement" }

SearchQueries == { "", "App" }

\* The items whose lower-cased title, description or tags include the
\* lower-cased query.
SearchMatches(q) ==
    CASE q = "app" -> { 2, 3, 4, 7 }
      [] OTHER -> {}

\* Array.prototype.slice(from, to)
Slice(q, from, to) == SubSeq(q, from + 1, IF to < Len(q) THEN to ELSE Len(q))

getFilteredUpdates(filter, query) ==
    SelectSeq(allUpdates,
              LAMBDA id : /\ filter = "all" \/ UpdateType(id) = filter
                          /\ query = "" \/ id \in SearchMatches(ToLowerCase(query)))

\* A call of a state setter: the update it queues.
SetState(hook, value) == [ hook |-> hook, value |-> value ]

\* The callback of the useEffect on [selectedFilter, searchQuery], with the
\* filteredUpdates of its render: the updates it queues.
filterEffect(filter, query) ==
    << SetState("displayedUpdates", Slice(getFilteredUpdates(filter, query), 0, PageSize)),
       SetState("hasMore", Len(getFilteredUpdates(filter, query)) > PageSize) >>

\* The state of the committed render.
Committed ==
    [ selectedFilter |-> selectedFilter, searchQuery |-> searchQuery,
      displayedUpdates |-> displayedUpdates, hasMore |-> hasMore ]

\* The state after the queued updates q, applied in order.
RECURSIVE Reduce(_, _)
Reduce(state, q) ==
    IF q = <<>> THEN state
    ELSE Reduce([state EXCEPT ![Head(q).hook] = Head(q).value], Tail(q))

\* The value a component of the page shows for a hook: the last one the
\* user gave it since the committed render, else the rendered one.
Latest(hook) ==
    LET own == SelectSeq(queue, LAMBDA u : u.hook = hook)
    IN  IF own = <<>> THEN Committed[hook] ELSE own[Len(own)].value

\* The page after its first render is committed: the initial state of the
\* hooks, the effect of the mount still to run.
InitUpdates ==
    /\ ValidatorNotStarted
    /\ ScriptNotStarted
    /\ selectedFilter = "all"
    /\ searchQuery = ""
    /\ displayedUpdates = Slice(allUpdates, 0, PageSize)
    /\ hasMore = TRUE
    /\ timers = <<>>
    /\ queue = <<>>
    /\ effectPending = TRUE
    /\ awaiting = {}
    /\ events = 0

Page_unchanged == UNCHANGED <<validatorVars, scriptVars>>

Rendered_unchanged == UNCHANGED <<selectedFilter, searchQuery, displayedUpdates, hasMore>>

\* A callback passed to setTimeout, with the state of the render it was
\* created in.
Timeout(kind, delay) ==
    [ kind |-> kind, delay |-> delay, selectedFilter |-> selectedFilter,
      searchQuery |-> searchQuery, displayedUpdates |-> displayedUpdates ]

\* The component that emitted the event waits for its complete().
Pending(kind) == kind \in awaiting

\* Timer i is due first: no timer set before it has a delay as short.
Due(i) == \A j \in DOMAIN timers : j < i => timers[j].delay > timers[i].delay

Without(q, i) == SubSeq(q, 1, i - 1) \o SubSeq(q, i + 1, Len(q))

\* onIonChange of the segment: the handler queues the update and returns.
SetSelectedFilter ==
    /\ events < MaxEvents
    /\ \E f \in Filters \ { Latest("selectedFilter") } :
          queue' = Append(queue, SetState("selectedFilter", f))
    /\ events' = events + 1
    /\ Rendered_unchanged
    /\ UNCHANGED <<timers, effectPending, awaiting>>
    /\ Page_unchanged

\* onIonInput of the search bar: the handler queues the update and returns.
SetSearchQuery ==
    /\ events < MaxEvents
    /\ \E q \in SearchQueries \ { Latest("searchQuery") } :
          queue' = Append(queue, SetState("searchQuery", q))
    /\ events' = events + 1
    /\ Rendered_unchanged
    /\ UNCHANGED <<timers, effectPending, awaiting>>
    /\ Page_unchanged

\* The useEffect of the committed render, run in a task of its own: it
\* queues its two updates.
FilterEffect ==
    /\ effectPending
    /\ queue' = queue \o filterEffect(selectedFilter, searchQuery)
    /\ effectPending' = FALSE
    /\ Rendered_unchanged
    /\ UNCHANGED <<timers, awaiting, events>>
    /\ Page_unchanged

\* React's render task: an effect still pending runs first and queues its
\* updates last, the queue is applied in order, and the effect is left to
\* run again when selectedFilter or searchQuery changed.  A render with
\* hasMore false passes disabled to the infinite scroll, which stops waiting
\* for complete() and fires again once it is enabled.
Render ==
    /\ queue # <<>>
    /\ LET flushed == IF effectPending
                      THEN queue \o filterEffect(selectedFilter, searchQuery)
                      ELSE queue
           next == Reduce(Committed, flushed)
       IN  /\ selectedFilter' = next.selectedFilter
           /\ searchQuery' = next.searchQuery
           /\ displayedUpdates' = next.displayedUpdates
           /\ hasMore' = next.hasMore
           /\ effectPending' = (<<next.selectedFilter, next.searchQuery>>
                                   # <<selectedFilter, searchQuery>>)
           /\ awaiting' = IF next.hasMore THEN awaiting ELSE awaiting \ { "more" }
    /\ queue' = <<>>
    /\ UNCHANGED <<timers, events>>
    /\ Page_unchanged

\* handleRefresh: the refresher fires again only after complete().
HandleRefresh ==
    /\ events < MaxEvents
    /\ ~Pending("refresh")
    /\ timers' = Append(timers, Timeout("refresh", RefreshDelay))
    /\ awaiting' = awaiting \cup { "refresh" }
    /\ events' = events + 1
    /\ Rendered_unchanged
    /\ UNCHANGED <<queue, effectPending>>
    /\ Page_unchanged

\* loadMoreUpdates: the infinite scroll is disabled unless hasMore and,
\* having fired, fires again after complete() or after it was disabled.
LoadMoreUpdates ==
    /\ events < MaxEvents
    /\ hasMore
    /\ ~Pending("more")
    /\ timers' = Append(timers, Timeout("more", LoadMoreDelay))
    /\ awaiting' = awaiting \cup { "more" }
    /\ events' = events + 1
    /\ Rendered_unchanged
    /\ UNCHANGED <<queue, effectPending>>
    /\ Page_unchanged

\* The callback of handleRefresh: two updates, then complete() of the
\* refresher event's detail.
RefreshTimeout ==
    /\ \E i \in DOMAIN timers :
          /\ timers[i].kind = "refresh"
          /\ Due(i)
          /\ queue' = queue \o
                << SetState("displayedUpdates",
                            Slice(getFilteredUpdates(timers[i].selectedFilter,
                                                     timers[i].searchQuery),
                                  0, PageSize)),
                   SetState("hasMore", TRUE) >>
          /\ timers' = Without(timers, i)
    /\ awaiting' = awaiting \ { "refresh" }
    /\ Rendered_unchanged
    /\ UNCHANGED <<effectPending, events>>
    /\ Page_unchanged

\* The callback of loadMoreUpdates: its updates, then event.detail.complete()
\* on an ionInfinite event, whose detail is null: the call throws a
\* TypeError and complete() is not called.
LoadMoreTimeout ==
    /\ \E i \in DOMAIN timers :
          /\ timers[i].kind = "more"
          /\ Due(i)
          /\ LET filtered == getFilteredUpdates(timers[i].selectedFilter, timers[i].searchQuery)
                 currentLength == Len(timers[i].displayedUpdates)
                 newUpdates == Slice(filtered, currentLength, currentLength + LoadMoreCount)
             IN  queue' = queue \o
                    << SetState("displayedUpdates", timers[i].displayedUpdates \o newUpdates) >>
                    \o IF currentLength + Len(newUpdates) >= Len(filtered)
                       THEN << SetState("hasMore", FALSE) >>
                       ELSE << >>
          /\ timers' = Without(timers, i)
    /\ Rendered_unchanged
    /\ UNCHANGED <<effectPending, awaiting, events>>
    /\ Page_unchanged

NextUpdates ==
    \/ SetSelectedFilter
    \/ SetSearchQuery
    \/ FilterEffect
    \/ Render
    \/ HandleRefresh
    \/ LoadMoreUpdates
    \/ RefreshTimeout
    \/ LoadMoreTimeout

SpecUpdates == InitUpdates /\ [][NextUpdates]_vars

-----------------------------------------------------------------------------
(* Properties of validate() *)

Assets == manifest.assets

\* Number of entries of q of the given kind, and of the given kind and subject.
CountKind(q, kind) == Len(SelectSeq(q, LAMBDA m : m.kind = kind))
CountMsg(q, kind, subject) ==
    Len(SelectSeq(q, LAMBDA m : m.kind = kind /\ m.subject = subject))
CountSubject(q, subject) == Len(SelectSeq(q, LAMBDA m : m.subject = subject))

\* The manifest exists and parses to an object.
Parsed == manifestFile = "object"

\* The record's path names a file that exists under the assets root.
FileOnDisk(a) ==
    /\ a.path # UndefinedPath
    /\ assetsTree.exists
    /\ Normalize(a.path) \in assetsTree.files

\* C1: in every ValidationResult validate returns (normal completion, early
\* return, caught exception), success is true iff errors is empty; warnings
\* never make success false.
C1_SuccessIffNoErrors ==
    Returned => (result.success <=> result.errors = <<>>)

C1_Witness ==
    Returned /\ result.success /\ result.warnings # <<>> /\ "business" \in Range(ran)

\* C2 (as claimed): for a manifest that exists and parses, with the assets
\* directory present, every validate call runs the integrity, file-system,
\* orphan-scan and business-rule checks over every asset record, whatever
\* errors the earlier checks recorded.
C2_AllChecksRun ==
    (pc = "done" /\ Parsed /\ assetsTree.exists)
        => /\ visited.integrity = Len(Assets)
           /\ visited.filesystem = Len(Assets)
           /\ visited.business = Len(Assets)
           /\ "orphans" \in Range(ran)

\* C3 (as claimed): a path occurring k times in the manifest yields k-1
\* 'Duplicate asset path found' errors (one error for a single duplicated
\* pair), and a duplicated path makes success false.
C3_DuplicatePathErrors ==
    (pc = "done" /\ Parsed)
        => \A i \in DOMAIN Assets :
              LET k == Cardinality({ j \in DOMAIN Assets : Assets[j].path = Assets[i].path })
              IN  /\ CountMsg(result.errors, "Duplicate asset path found", Assets[i].path) = k - 1
                  /\ k > 1 => (~result.success /\ result.stats.invalidAssets >= k - 1)

\* C4 (as claimed): every asset record whose path has no file under the
\* assets root gets its 'Missing file' error, is counted in missingFiles and
\* invalidAssets, and makes success false.
C4_MissingFileError ==
    (pc = "done" /\ Parsed)
        => LET missing == { j \in DOMAIN Assets :
                              Assets[j].path # UndefinedPath /\ ~PathExists(assetsTree, Assets[j].path) }
           IN  /\ \A i \in missing :
                     /\ CountMsg(result.errors, "Missing file", Assets[i].path)
                          = Cardinality({ j \in missing : Assets[j].path = Assets[i].path })
                     /\ result.stats.invalidAssets >= 1
                     /\ ~result.success
               /\ result.stats.missingFiles = Cardinality(missing)

\* C5 (as claimed): every asset record whose file exists with a byte length
\* other than the recorded size gets exactly one warning mentioning its path,
\* and success stays true when no error was recorded.
C5_OneSizeWarning ==
    (pc = "done" /\ Parsed)
        => /\ \A i \in DOMAIN Assets :
                 ( /\ FileOnDisk(Assets[i])
                   /\ ~StatFails(assetsTree, Assets[i].path)
                   /\ StatSize(Normalize(Assets[i].path)) # Assets[i].size
                   /\ Cardinality({ j \in DOMAIN Assets : Assets[j].path = Assets[i].path }) = 1 )
                 => CountSubject(result.warnings, Assets[i].path) = 1
           /\ result.errors = <<>> => result.success

\* C6 (as claimed): every file under the assets root with a supported
\* extension whose relative path is no record's path gets exactly one
\* 'Orphaned file found' warning, orphanedFiles counts these files, and
\* orphans alone leave success true.
OrphanedOnDisk ==
    { f \in assetsTree.files :
        /\ ToLowerCase(ExtName(f[Len(f)])) \in supportedExtensions
        /\ f \notin { Assets[i].path : i \in DOMAIN Assets } }

C6_OrphanWarnings ==
    (pc = "done" /\ Parsed)
        => /\ \A f \in OrphanedOnDisk : CountMsg(result.warnings, "Orphaned file found", f) = 1
           /\ result.stats.orphanedFiles = Cardinality(OrphanedOnDisk)
           /\ result.errors = <<>> => result.success

\* C7: an exception thrown by a phase is caught inside validate: nothing
\* leaves validate, exactly one 'Validation failed' entry is appended after
\* the errors already collected, and success is false.
C7_ExceptionCaught ==
    /\ ~escaped
    /\ caught = "none" => CountKind(result.errors, "Validation failed") = 0
    /\ caught # "none"
         => /\ pc = "done"
            /\ ~result.success
            /\ CountKind(result.errors, "Validation failed") = 1
            /\ result.errors[Len(result.errors)].kind = "Validation failed"
            /\ SubSeq(result.errors, 1, Len(validateSchema(manifest, NewResult).errors))
                 = validateSchema(manifest, NewResult).errors

C7_Witness ==
    /\ caught = "filesystem"
    /\ Len(result.errors) >= 2
    /\ result.warnings # <<>>

\* C8: with catalogue.json absent validate returns at once: success false,
\* the single error 'Catalogue file does not exist', no warning, all five
\* counters 0, and no load, schema, integrity, file-system or business step.
C8_AbsentManifest ==
    (manifestFile = "absent" /\ pc # "exists")
        => /\ pc = "done"
           /\ result = [NewResult EXCEPT !.success = FALSE,
                                         !.errors = << Msg("Catalogue file does not exist", <<>>) >>]
           /\ catalogueData = <<>>
           /\ ran = <<>>
           /\ visited = NoVisits

C8_Witness == manifestFile = "absent" /\ pc = "done" /\ assetsTree.exists

\* C9: with catalogue.json present but unparseable validate returns at once:
\* success false, the single error 'Failed to load catalogue data', all
\* counters 0, and no schema, integrity, file-system or business check.
C9_UnparseableManifest ==
    (manifestFile = "garbage" /\ pc \notin { "exists", "load" })
        => /\ pc = "done"
           /\ result = [NewResult EXCEPT !.success = FALSE,
                                         !.errors = << Msg("Failed to load catalogue data", <<>>) >>]
           /\ ran = <<>>
           /\ visited = NoVisits

C9_Witness == manifestFile = "garbage" /\ pc = "done" /\ assetsTree.exists

\* C10: a schema-valid manifest with an empty assets list validates with
\* success true and totalAssets 0, whatever the assets directory, asset_count
\* and last_updated are.
C10_EmptyManifest ==
    (pc = "done" /\ Parsed /\ Assets = <<>> /\ SchemaValid(manifest))
        => /\ result.success
           /\ result.stats.totalAssets = 0
           /\ result.errors = <<>>

C10_Witness ==
    /\ pc = "done" /\ Parsed /\ Assets = <<>> /\ SchemaValid(manifest)
    /\ ~assetsTree.exists
    /\ manifest.metadata.asset_count = <<2>>
    /\ result.warnings # <<>>

\* C11 (as claimed): a validate run over a manifest with a last_updated date
\* emits exactly one staleness warning when now - last_updated exceeds 7 days
\* and none when it is 7 days or less.
StalenessWarnings == CountKind(result.warnings, "Catalogue hasn't been updated in days")

C11_Staleness ==
    (pc = "done" /\ Parsed /\ manifest.metadata.present /\ manifest.metadata.last_updated.k = "iso")
        => StalenessWarnings =
             (IF now - manifest.metadata.last_updated.ms > StaleDays * MsPerDay THEN 1 ELSE 0)

\* C13: no step of a validate run, on any path, changes the manifest file,
\* the parsed manifest data or the assets tree.
C13_InputsUntouched ==
    [][ /\ manifestFile' = manifestFile
        /\ manifest' = manifest
        /\ assetsTree' = assetsTree
        /\ catalogueData # <<>> => catalogueData' = << manifest >> ]_vars

C13_Witness ==
    /\ pc = "done" /\ caught = "filesystem"
    /\ Len(Assets) = 2
    /\ catalogueData = << manifest >>

\* C14: the CLI exits with code 0 exactly when validate returned success true
\* (and printResults did not throw), and with code 1 in every other case.
C14_ExitCode ==
    cli.pc = "exited"
        => /\ cli.exitCode \in { 0, 1 }
           /\ cli.exitCode = 0 <=> (result.success /\ ~cli.printThrew /\ ~escaped)

C14_Witness == cli.pc = "exited" /\ cli.printThrew /\ result.success /\ cli.exitCode = 1

\* C15: when the assets root does not exist the file-system phase adds the
\* single warning 'Assets directory does not exist' and nothing else: no
\* error, no other warning, no counter changes.
C15_MissingAssetsDir ==
    [][ (pc = "filesystem" /\ ~assetsTree.exists)
          => result' = [result EXCEPT !.warnings =
                           Append(@, Msg("Assets directory does not exist", <<>>))] ]_vars

C15_Witness ==
    /\ ~assetsTree.exists
    /\ "filesystem" \in Range(ran)
    /\ \E i \in DOMAIN Assets : Assets[i].path = <<"x.jpg">>

\* C16: a run that completes all phases without an exception returns
\* totalAssets = number of records and validAssets = totalAssets -
\* invalidAssets, where invalidAssets is the raw number of increments made by
\* the integrity and file-system checks (one per error they record).
CompletedAllPhases == pc = "done" /\ Parsed /\ caught = "none"

InvalidIncrements ==
    CountKind(result.errors, "Duplicate asset path found")
    + CountKind(result.errors, "Invalid created_at date for asset")
    + CountKind(result.errors, "Invalid modified_at date for asset")
    + CountKind(result.errors, "Missing file")
    + CountKind(result.errors, "Failed to check file stats for")

C16_FinalStats ==
    CompletedAllPhases
        => /\ result.stats.totalAssets = Len(Assets)
           /\ result.stats.invalidAssets = InvalidIncrements
           /\ result.stats.validAssets = result.stats.totalAssets - result.stats.invalidAssets

C16_Witness ==
    /\ CompletedAllPhases
    /\ Len(Assets) = 1
    /\ result.stats.invalidAssets = 2
    /\ result.stats.validAssets = -1

\* C17: the phases run in the order schema, integrity, file-system (per-asset
\* checks, then orphan scan), business rules: errors and warnings appear in
\* the result in that order of phases.
PhaseRank(phase) ==
    CASE phase = "schema" -> 1
      [] phase = "integrity" -> 2
      [] phase = "filesystem" -> 3
      [] phase = "orphans" -> 4
      [] phase = "business" -> 5
      [] OTHER -> 6

PhaseOfMessage(kind) ==
    CASE kind \in { "Schema validation failed", "SchemaDetail" } -> "schema"
      [] kind \in { "Asset count mismatch", "Duplicate asset path found",
                    "Duplicate asset name found", "Invalid created_at date for asset",
                    "Invalid modified_at date for asset", "created_at is after modified_at",
                    "extension doesn't match type" } -> "integrity"
      [] kind \in { "Assets directory does not exist", "Missing file",
                    "Failed to check file stats for", "File size mismatch for",
                    "File modification time mismatch for" } -> "filesystem"
      [] kind \in { "Orphaned file found", "Failed to scan directory" } -> "orphans"
      [] kind \in { "unusually large size", "unusually small size",
                    "AI description but no generation timestamp",
                    "AI generation timestamp but no description",
                    "Catalogue hasn't been updated in days" } -> "business"
      [] OTHER -> "catch"

InPhaseOrder(q) ==
    \A i, j \in DOMAIN q :
        i < j => PhaseRank(PhaseOfMessage(q[i].kind)) <= PhaseRank(PhaseOfMessage(q[j].kind))

C17_PhaseOrder ==
    /\ \A i, j \in DOMAIN ran : i < j => PhaseRank(ran[i]) < PhaseRank(ran[j])
    /\ InPhaseOrder(result.errors)
    /\ InPhaseOrder(result.warnings)

AdjacentPhases(q, a, b) ==
    \E i \in DOMAIN q :
        /\ i + 1 <= Len(q)
        /\ PhaseOfMessage(q[i].kind) = a
        /\ PhaseOfMessage(q[i + 1].kind) = b

C17_Witness ==
    /\ pc = "done"
    /\ ran = << "schema", "integrity", "filesystem", "orphans", "business" >>
    /\ AdjacentPhases(result.warnings, "integrity", "filesystem")
    /\ AdjacentPhases(result.warnings, "filesystem", "orphans")
\* C21 (as claimed): every record whose created_at does not parse gets one
\* 'Invalid created_at' error and one invalidAssets increment, likewise for
\* modified_at; a record with two valid dates and created_at later than
\* modified_at gets one warning; a record with an unparseable date never gets
\* the created-after-modified warning.
Names == { Assets[i].name : i \in DOMAIN Assets }

Named(n, P(_)) == Cardinality({ i \in DOMAIN Assets : Assets[i].name = n /\ P(Assets[i]) })

BadCreated(a) == a.created_at.k # "iso"
BadModified(a) == a.modified_at.k # "iso"
CreatedLater(a) == ~BadCreated(a) /\ ~BadModified(a) /\ a.created_at.ms > a.modified_at.ms

C21_InvalidDates ==
    (pc = "done" /\ Parsed)
        => /\ \A n \in Names :
                 /\ CountMsg(result.errors, "Invalid created_at date for asset", <<n>>)
                      = Named(n, BadCreated)
                 /\ CountMsg(result.errors, "Invalid modified_at date for asset", <<n>>)
                      = Named(n, BadModified)
                 /\ CountMsg(result.warnings, "created_at is after modified_at", <<n>>)
                      = Named(n, CreatedLater)
           /\ CountKind(result.errors, "created_at is after modified_at") = 0
           /\ result.stats.invalidAssets
                >= Cardinality({ i \in DOMAIN Assets : BadCreated(Assets[i]) })
                   + Cardinality({ i \in DOMAIN Assets : BadModified(Assets[i]) })

\* C22 (as claimed): with the assets directory present, a record whose file
\* is missing gets no size-mismatch and no mtime-mismatch warning, and the
\* file-system check goes on to every later record.
MissingRecords ==
    { i \in DOMAIN Assets :
        Assets[i].path # UndefinedPath /\ ~PathExists(assetsTree, Assets[i].path) }

C22_MissingFileContinues ==
    (pc = "done" /\ Parsed /\ assetsTree.exists /\ MissingRecords # {})
        => /\ \A i \in MissingRecords :
                 /\ CountMsg(result.warnings, "File size mismatch for", Assets[i].path) = 0
                 /\ CountMsg(result.warnings, "File modification time mismatch for", Assets[i].path) = 0
           /\ visited.filesystem = Len(Assets)

\* C23 (as claimed): a record gets the extension/type mismatch warning iff
\* its lower-cased extension is not in the extension set of its type; the
\* mismatch is never an error; every record of type 'unknown' gets it.
ExtensionMismatch(a) ==
    /\ a.extension # UndefinedExt
    /\ ToLowerCase(a.extension) \notin getExpectedExtensions(a.type)

C23_ExtensionMismatch ==
    (pc = "done" /\ Parsed)
        => /\ \A n \in Names :
                 CountMsg(result.warnings, "extension doesn't match type", <<n>>)
                    = Named(n, ExtensionMismatch)
           /\ CountKind(result.errors, "extension doesn't match type") = 0
           /\ \A i \in DOMAIN Assets :
                 Assets[i].type = "unknown"
                    => CountMsg(result.warnings, "extension doesn't match type", <<Assets[i].name>>) >= 1

\* C24 (as claimed): a record whose file exists gets the modification-time
\* mismatch warning iff the file's mtime and the recorded modified_at differ
\* by more than 2000 ms (exactly 2000 ms: no warning); never an error.
Abs(x) == IF x >= 0 THEN x ELSE 0 - x

MtimeOff(a) ==
    /\ FileOnDisk(a)
    /\ ~StatFails(assetsTree, a.path)
    /\ ~BadModified(a)
    /\ Abs(StatMtime(Normalize(a.path)) - a.modified_at.ms) > Tolerance

C24_MtimeTolerance ==
    (pc = "done" /\ Parsed)
        => /\ \A i \in DOMAIN Assets :
                 CountMsg(result.warnings, "File modification time mismatch for", Assets[i].path)
                    = Cardinality({ j \in DOMAIN Assets :
                                      Assets[j].path = Assets[i].path /\ MtimeOff(Assets[j]) })
           /\ CountKind(result.errors, "File modification time mismatch for") = 0

\* C25 (as claimed): a record in which exactly one of ai_description and
\* ai_generated_at is present gets exactly one pairing warning; a record with
\* both or neither gets none.
DescriptionPresent(a) == a.ai_description # "absent"
GeneratedAtPresent(a) == a.ai_generated_at.k # "missing"
Unpaired(a) == DescriptionPresent(a) # GeneratedAtPresent(a)

PairingWarnings(n) ==
    CountMsg(result.warnings, "AI description but no generation timestamp", <<n>>)
    + CountMsg(result.warnings, "AI generation timestamp but no description", <<n>>)

C25_PairingWarning ==
    (pc = "done" /\ Parsed)
        => \A n \in Names : PairingWarnings(n) = Named(n, Unpaired)

\* C26: in the orphan scan a directory that cannot be read yields one
\* 'Failed to scan directory' warning and nothing else: no error, no
\* exception, the run goes on to the business rules, and the files next to
\* the unreadable directory are still examined.
ScanRan == pc = "done" /\ "orphans" \in Range(ran)

\* The directories the scan tries to read and cannot.
FailedDirs ==
    { d \in assetsTree.unreadable : d = <<>> \/ <<>> \notin assetsTree.unreadable }

\* The files of the root that are orphaned.
OrphanedInRoot == { f \in OrphanedOnDisk : Len(f) = 1 }

C26_ScanFailureNotFatal ==
    ScanRan
        => /\ \A d \in FailedDirs : CountMsg(result.warnings, "Failed to scan directory", d) = 1
           /\ CountKind(result.warnings, "Failed to scan directory") = Cardinality(FailedDirs)
           /\ CountKind(result.errors, "Failed to scan directory") = 0
           /\ caught = "none"
           /\ "business" \in Range(ran)
           /\ result.success <=> result.errors = <<>>
           /\ <<>> \notin assetsTree.unreadable
                => \A f \in OrphanedInRoot : CountMsg(result.warnings, "Orphaned file found", f) = 1

C26_Witness ==
    /\ ScanRan
    /\ assetsTree.unreadable = { <<"d">> }
    /\ CountMsg(result.warnings, "Failed to scan directory", <<"d">>) = 1
    /\ CountMsg(result.warnings, "Orphaned file found", LateFile) = 1
    /\ CountMsg(result.warnings, "Orphaned file found", <<"a.png">>) = 1
    /\ result.success

\* C27 (as claimed): in every returned ValidationResult validAssets is
\* between 0 and totalAssets and invalidAssets is at most totalAssets.
C27_StatsInRange ==
    Returned
        => /\ 0 <= result.stats.validAssets
           /\ result.stats.validAssets <= result.stats.totalAssets
           /\ result.stats.invalidAssets <= result.stats.totalAssets

\* C27 (amended): validAssets never exceeds totalAssets and invalidAssets is
\* never negative; invalidAssets is the number of duplicate-path,
\* invalid-date, missing-file and stat-failure errors recorded, so it can
\* exceed totalAssets and validAssets can be negative.
C27_StatsAmended ==
    Returned
        => /\ result.stats.validAssets <= result.stats.totalAssets
           /\ result.stats.invalidAssets >= 0
           /\ result.stats.invalidAssets = InvalidIncrements

C27_Witness ==
    /\ Returned
    /\ result.stats.totalAssets = 2
    /\ result.stats.invalidAssets > result.stats.totalAssets
    /\ result.stats.validAssets < 0

\* C28 (as claimed): a file that the file-system check found for some record
\* is never reported as orphaned in the same run, whatever the form of the
\* record's path.
C28_FoundNotOrphaned ==
    (pc = "done" /\ Parsed)
        => \A i \in DOMAIN Assets :
              FileOnDisk(Assets[i])
                 => CountMsg(result.warnings, "Orphaned file found", Normalize(Assets[i].path)) = 0

-----------------------------------------------------------------------------
(* Properties of download_all_categories.sh *)

\* C18: a failed category never stops the batch: the categories are
\* attempted once each, in array order, and the script exits only after the
\* last one has been processed.
Attempted == [ i \in DOMAIN iterations |-> iterations[i].category_id ]

C18_BatchContinues ==
    /\ Len(iterations) <= Len(CATEGORIES)
    /\ Attempted = SubSeq(CATEGORIES, 1, Len(iterations))
    /\ Len(iterations) = (IF scriptPc \in { "download", "reconcile" }
                          THEN categoryIndex - 1
                          ELSE IF scriptPc = "delay" THEN categoryIndex ELSE Len(CATEGORIES))
    /\ scriptPc = "exited" => Attempted = CATEGORIES

C18_Witness ==
    /\ scriptPc = "exited"
    /\ Attempted = CATEGORIES
    /\ iterations[1].verdict = "failed"
    /\ iterations[2].verdict = "no data file"
    /\ iterations[3].verdict = "0 questions"

\* C19: the script exits 1 iff at least one category was counted as failed,
\* and 0 iff every category was counted as completed.
C19_ExitStatus ==
    scriptPc = "exited"
        => /\ exitStatus \in { 0, 1 }
           /\ exitStatus = 1 <=> failed_categories > 0
           /\ exitStatus = 0 <=> completed_categories = Len(CATEGORIES)

C19_Witness ==
    /\ scriptPc = "exited"
    /\ exitStatus = 1
    /\ failed_categories = 1
    /\ completed_categories = Len(CATEGORIES) - 1

\* C20: a category is counted as completed iff its downloader exited 0, a
\* questions.json with its category_id was found and that file's
\* total_questions is > 0, and as failed otherwise; completed + failed is
\* the number of categories processed and total_questions is the sum of the
\* counts of the completed ones.
Matching(it) ==
    { i \in DOMAIN it.dir : it.dir[i].present /\ it.dir[i].category_id = it.category_id }

FoundFile(it) == it.dir[CHOOSE i \in Matching(it) : \A j \in Matching(it) : i <= j]

ShouldComplete(it) ==
    /\ it.status = 0
    /\ Matching(it) # {}
    /\ FoundFile(it).total_questions > 0

RECURSIVE Tallies(_, _)
Tallies(its, i) ==
    IF i = 0 THEN [ completed |-> 0, failed |-> 0, questions |-> 0 ]
    ELSE LET t == Tallies(its, i - 1)
         IN  IF ShouldComplete(its[i])
             THEN [ t EXCEPT !.completed = @ + 1,
                             !.questions = @ + FoundFile(its[i]).total_questions ]
             ELSE [ t EXCEPT !.failed = @ + 1 ]

C20_CategoryVerdict ==
    /\ \A i \in DOMAIN iterations :
          (iterations[i].verdict = "completed") <=> ShouldComplete(iterations[i])
    /\ completed_categories = Tallies(iterations, Len(iterations)).completed
    /\ failed_categories = Tallies(iterations, Len(iterations)).failed
    /\ total_questions = Tallies(iterations, Len(iterations)).questions
    /\ completed_categories + failed_categories = Len(iterations)

C20_Witness ==
    /\ Len(iterations) = Len(CATEGORIES)
    /\ completed_categories = 2
    /\ total_questions = 5
    /\ \E i \in DOMAIN iterations :
          /\ iterations[i].status = 0
          /\ Matching(iterations[i]) = { 1, SlotOf(i) }
          /\ iterations[i].dir[1].total_questions = 0
          /\ iterations[i].dir[SlotOf(i)].total_questions = 3
          /\ iterations[i].verdict = "0 questions"
\* C29 (as claimed): the count credited to a completed category comes from
\* the questions.json that this run's downloader invocation for the category
\* wrote; a file left by an earlier run never makes a category completed.
\* The directories of the categories are empty when the script starts and
\* each is written by the invocation for its category only, so a file in the
\* category's own directory is one this run wrote.
FoundIndex(it) == CHOOSE i \in Matching(it) : \A j \in Matching(it) : i <= j

C29_CreditedFromThisRun ==
    \A i \in DOMAIN iterations :
        iterations[i].verdict = "completed" => FoundIndex(iterations[i]) = SlotOf(i)
-----------------------------------------------------------------------------
(* Properties of the Updates page *)

\* C30 (as claimed): once no timer, no effect and no update is pending,
\* displayedUpdates is a
\* duplicate-free prefix of the list filtered by the current selectedFilter
\* and searchQuery, and hasMore is true only if that list has more items
\* than are displayed.
CurrentFiltered == getFilteredUpdates(selectedFilter, searchQuery)

C30_DisplayedIsPrefix ==
    (timers = <<>> /\ ~effectPending /\ queue = <<>>)
        => /\ \A i, j \in DOMAIN displayedUpdates :
                 i # j => displayedUpdates[i] # displayedUpdates[j]
           /\ Len(displayedUpdates) <= Len(CurrentFiltered)
           /\ displayedUpdates = SubSeq(CurrentFiltered, 1, Len(displayedUpdates))
           /\ hasMore => Len(CurrentFiltered) > Len(displayedUpdates)

====
